---- MODULE Spec2Model ----
(***************************************************************************)
(* Safe Chat Filter backend (backend/app.py): POST /api/check.             *)
(*                                                                         *)
(* A text is a sequence of one-character strings.  The handler check_text  *)
(* runs on an asyncio event loop: code between two awaits is one atomic    *)
(* step, so a request takes one step up to the outbound call (or to its    *)
(* response when no call is made) and one step from the completion of the  *)
(* call to its response.                                                   *)
(***************************************************************************)
EXTENDS Integers, Sequences, FiniteSets, TLC

(* ---------------------------------------------------------------------- *)
(* Bounds of the model                                                     *)
(* ---------------------------------------------------------------------- *)
NumRequests == 2
MaxReqChunks == 2
MaxChunks == 4
MaxUpstreamCats == 2

(* ---------------------------------------------------------------------- *)
(* Characters and the str methods the code uses                            *)
(* ---------------------------------------------------------------------- *)
LowerLetters ==
    << "a","b","c","d","e","f","g","h","i","j","k","l","m",
       "n","o","p","q","r","s","t","u","v","w","x","y","z" >>

UpperLetters ==
    << "A","B","C","D","E","F","G","H","I","J","K","L","M",
       "N","O","P","Q","R","S","T","U","V","W","X","Y","Z" >>

Digits == << "0","1","2","3","4","5","6","7","8","9" >>

Range(s) == { s[i] : i \in DOMAIN s }

IndexOf(c, s) == CHOOSE i \in DOMAIN s : s[i] = c

LowerSet == Range(LowerLetters)

UpperSet == Range(UpperLetters)

DigitSet == Range(Digits)

IsLower(c) == c \in LowerSet

IsUpper(c) == c \in UpperSet

\* str.isalpha / "cased" character
IsCased(c) == IsLower(c) \/ IsUpper(c)

\* the regex class \w
IsWordChar(c) == IsCased(c) \/ c \in DigitSet \/ c = "_"

\* the characters str.strip() removes
IsSpace(c) == c \in { " ", "\t", "\n", "\r" }

LowerChar(c) == IF IsUpper(c) THEN LowerLetters[IndexOf(c, UpperLetters)] ELSE c

UpperChar(c) == IF IsLower(c) THEN UpperLetters[IndexOf(c, LowerLetters)] ELSE c

\* str.lower()
lower(s) == [ i \in 1..Len(s) |-> LowerChar(s[i]) ]

\* str.replace(old, new) for one-character old and new
replace(s, old, new) == [ i \in 1..Len(s) |-> IF s[i] = old THEN new ELSE s[i] ]

\* str.title(): a cased character is upper-cased when the character before
\* it is not cased, lower-cased otherwise
title(s) ==
    [ i \in 1..Len(s) |->
        IF i > 1 /\ IsCased(s[i-1]) THEN LowerChar(s[i]) ELSE UpperChar(s[i]) ]

RECURSIVE lstrip(_)
lstrip(s) == IF s # <<>> /\ IsSpace(Head(s)) THEN lstrip(Tail(s)) ELSE s

RECURSIVE rstrip(_)
rstrip(s) ==
    IF s # <<>> /\ IsSpace(s[Len(s)]) THEN rstrip(SubSeq(s, 1, Len(s) - 1)) ELSE s

\* str.strip()
strip(s) == rstrip(lstrip(s))

(* ---------------------------------------------------------------------- *)
(* Heuristic filter patterns.  Every pattern of the table has the shape    *)
(* \b(w1|w2|...)\b; it is kept as the sequence of its alternatives.        *)
(* ---------------------------------------------------------------------- *)
HEURISTIC_PATTERNS ==
   <<
      [ category |-> <<"v","i","o","l","e","n","c","e">>,
        patterns |-> <<
         << <<"k","i","l","l">>,
            <<"m","u","r","d","e","r">>,
            <<"a","s","s","a","u","l","t">>,
            <<"a","t","t","a","c","k">>,
            <<"f","i","g","h","t">>,
            <<"v","i","o","l","e","n","c","e">>,
            <<"h","a","r","m">>,
            <<"h","u","r","t">> >>,
         << <<"w","e","a","p","o","n">>,
            <<"g","u","n">>,
            <<"k","n","i","f","e">>,
            <<"b","o","m","b">>,
            <<"e","x","p","l","o","s","i","v","e">> >>,
         << <<"t","h","r","e","a","t">>,
            <<"t","h","r","e","a","t","e","n">>,
            <<"i","n","t","i","m","i","d","a","t","e">> >> >> ],
      [ category |-> <<"h","a","r","a","s","s","m","e","n","t">>,
        patterns |-> <<
         << <<"s","t","u","p","i","d">>,
            <<"i","d","i","o","t">>,
            <<"m","o","r","o","n">>,
            <<"d","u","m","b">>,
            <<"u","g","l","y">>,
            <<"f","a","t">>,
            <<"g","r","o","s","s">> >>,
         << <<"h","a","t","e">>,
            <<"d","e","s","p","i","s","e">>,
            <<"l","o","a","t","h","e">> >>,
         << <<"h","a","r","a","s","s">>,
            <<"b","u","l","l","y">>,
            <<"i","n","t","i","m","i","d","a","t","e">> >> >> ],
      [ category |-> <<"i","n","a","p","p","r","o","p","r","i","a","t","e">>,
        patterns |-> <<
         << <<"s","e","x">>,
            <<"s","e","x","u","a","l">>,
            <<"n","u","d","e">>,
            <<"n","a","k","e","d">>,
            <<"p","o","r","n">>,
            <<"a","d","u","l","t">> >>,
         << <<"d","r","u","g">>,
            <<"a","l","c","o","h","o","l">>,
            <<"d","r","u","n","k">>,
            <<"h","i","g","h">>,
            <<"s","t","o","n","e","d">> >>,
         << <<"s","c","a","m">>,
            <<"f","r","a","u","d">>,
            <<"c","h","e","a","t">>,
            <<"s","t","e","a","l">>,
            <<"r","o","b">> >> >> ],
      [ category |-> <<"s","p","a","m">>,
        patterns |-> <<
         << <<"b","u","y">>,
            <<"s","e","l","l">>,
            <<"p","r","o","m","o">>,
            <<"d","i","s","c","o","u","n","t">>,
            <<"o","f","f","e","r">>,
            <<"d","e","a","l">> >>,
         << <<"c","l","i","c","k">>,
            <<"l","i","n","k">>,
            <<"w","e","b","s","i","t","e">>,
            <<"u","r","l">> >>,
         << <<"f","o","l","l","o","w">>,
            <<"s","u","b","s","c","r","i","b","e">>,
            <<"l","i","k","e">>,
            <<"s","h","a","r","e">> >> >> ]
   >>

(* ---------------------------------------------------------------------- *)
(* re.search(pattern, s, re.IGNORECASE) for the patterns of the table      *)
(* ---------------------------------------------------------------------- *)
IsWordAt(s, p) == p \in 1..Len(s) /\ IsWordChar(s[p])

\* \b holds between positions p-1 and p when exactly one side is a \w
WordBoundary(s, p) == IsWordAt(s, p - 1) # IsWordAt(s, p)

MatchesAt(alt, s, i) ==
    /\ i + Len(alt) - 1 <= Len(s)
    /\ \A j \in 1..Len(alt) : LowerChar(s[i + j - 1]) = LowerChar(alt[j])

re_search(pattern, s) ==
    \E i \in 1..Len(s) :
        /\ WordBoundary(s, i)
        /\ \E k \in 1..Len(pattern) :
              /\ MatchesAt(pattern[k], s, i)
              /\ WordBoundary(s, i + Len(pattern[k]))

(* ---------------------------------------------------------------------- *)
(* Reason strings                                                          *)
(* ---------------------------------------------------------------------- *)
DetectedPrefix == << "D","e","t","e","c","t","e","d",":"," " >>

\* f"Detected: {category.replace('_', ' ').title()}"
FormatReason(category) == DetectedPrefix \o title(replace(category, "_", " "))

(* ---------------------------------------------------------------------- *)
(* check_with_heuristic                                                    *)
(* ---------------------------------------------------------------------- *)
RECURSIVE ScanPatternsNoBreak(_, _, _, _)
ScanPatternsNoBreak(category, patterns, k, text_lower) ==
    IF k > Len(patterns) THEN << >>
    ELSE IF re_search(patterns[k], text_lower)
         THEN << FormatReason(category) >>
              \o ScanPatternsNoBreak(category, patterns, k + 1, text_lower)
         ELSE ScanPatternsNoBreak(category, patterns, k + 1, text_lower)

\* the inner loop: the patterns of one category in order, from the k-th on;
\* the first match appends the reason and breaks
RECURSIVE ScanPatterns(_, _, _, _)
ScanPatterns(category, patterns, k, text_lower) ==
    IF k > Len(patterns) THEN << >>
    ELSE IF re_search(patterns[k], text_lower)
         THEN << FormatReason(category) >>
         ELSE ScanPatterns(category, patterns, k + 1, text_lower)

\* the outer loop: the categories in the order of the table, from the c-th on
RECURSIVE ScanCategories(_, _)
ScanCategories(c, text_lower) ==
    IF c > Len(HEURISTIC_PATTERNS) THEN << >>
    ELSE ScanPatterns(HEURISTIC_PATTERNS[c].category,
                      HEURISTIC_PATTERNS[c].patterns, 1, text_lower)
         \o ScanCategories(c + 1, text_lower)

check_with_heuristic_safe_inverted(t) ==
    CHOOSE verdict \in
        { [ safe |-> Len(reasons) # 0, reasons |-> reasons, mode |-> "heuristic" ] :
            reasons \in { ScanCategories(1, text_lower) :
                            text_lower \in { lower(t) } } } : TRUE

\* text_lower and reasons are local variables of the function: each is
\* bound to its value once (a one-element set), then the dict is built
check_with_heuristic(t) ==
    CHOOSE verdict \in
        { [ safe |-> Len(reasons) = 0, reasons |-> reasons, mode |-> "heuristic" ] :
            reasons \in { ScanCategories(1, text_lower) :
                            text_lower \in { lower(t) } } } : TRUE

(* ---------------------------------------------------------------------- *)
(* The outbound call and check_with_openai                                 *)
(* ---------------------------------------------------------------------- *)
\* category names the moderation service may report, in the order of its
\* JSON object
UpstreamCategoryNames ==
    << <<"h","a","t","e">>,
       <<"s","e","l","f","_","h","a","r","m">>,
       <<"s","e","x","u","a","l","/","m","i","n","o","r","s">>,
       <<"v","i","o","l","e","n","c","e">> >>

\* JSON scalars as response.json() yields them, and their Python truth value
JsonBooleans == { "true", "false" }

Truthy(v) == v \in { "true", "1" }

\* the items of a "categories" object with n entries
CategoryItems(n) ==
    { [ i \in 1..n |-> [ name |-> UpstreamCategoryNames[i], is_flagged |-> b[i] ] ] :
        b \in [ 1..n -> JsonBooleans ] }

AllCategoryItems == UNION { CategoryItems(n) : n \in 0..MaxUpstreamCats }

ResultObject(keys, flagged, categories) ==
    [ keys |-> keys, flagged |-> flagged, categories |-> categories ]

DataObject(keys, results) == [ keys |-> keys, results |-> results ]

NoData == DataObject({}, << >>)

\* what the awaited client.post and the response it yields can be
Outcome(exc, status_code, is_json, data) ==
    [ exc |-> exc, status_code |-> status_code, is_json |-> is_json, data |-> data ]

NoOutcome == Outcome("pending", 0, FALSE, NoData)

TransportFailures ==
    { Outcome(e, 0, FALSE, NoData) : e \in { "ConnectError", "ReadTimeout" } }

StatusFailures == { Outcome("none", s, TRUE, NoData) : s \in { 429, 500 } }

\* payloads on which the parsing raises: not JSON, no "results", an empty
\* "results", no "flagged", no "categories"
MalformedPayloads ==
    { Outcome("none", 200, FALSE, NoData),
      Outcome("none", 200, TRUE, DataObject({}, << >>)),
      Outcome("none", 200, TRUE, DataObject({"results"}, << >>)),
      Outcome("none", 200, TRUE,
              DataObject({"results"}, << ResultObject({"categories"}, "false", << >>) >>)),
      Outcome("none", 200, TRUE,
              DataObject({"results"}, << ResultObject({"flagged"}, "true", << >>) >>)) }

WellFormed ==
    { Outcome("none", 200, TRUE,
              DataObject({"results"},
                         << ResultObject({"flagged", "categories"}, f, c) >>)) :
        f \in JsonBooleans, c \in AllCategoryItems }

\* payloads with every field present but values that are not booleans:
\* nothing raises on them, the code uses their truth value
MistypedPayloads ==
    { Outcome("none", 200, TRUE,
              DataObject({"results"},
                         << ResultObject({"flagged", "categories"}, "null", << >>) >>)),
      Outcome("none", 200, TRUE,
              DataObject({"results"},
                         << ResultObject({"flagged", "categories"}, "1",
                                         << [ name |-> UpstreamCategoryNames[1],
                                              is_flagged |-> "1" ] >>) >>)) }

Outcomes ==
    TransportFailures \cup StatusFailures \cup MalformedPayloads
        \cup WellFormed \cup MistypedPayloads

\* the exception raised inside the try block, "none" when it runs to the return
RaisedInTry(o) ==
    IF o.exc # "none" THEN o.exc
    ELSE IF ~ (o.status_code >= 200 /\ o.status_code <= 299) THEN "HTTPStatusError"
    ELSE IF ~ o.is_json THEN "JSONDecodeError"
    ELSE IF "results" \notin o.data.keys THEN "KeyError"
    ELSE IF Len(o.data.results) = 0 THEN "IndexError"
    ELSE IF "flagged" \notin o.data.results[1].keys THEN "KeyError"
    ELSE IF "categories" \notin o.data.results[1].keys THEN "KeyError"
    ELSE "none"

CategoryReasonsEveryCategory(flagged, categories) ==
    LET RECURSIVE Collect(_)
        Collect(i) ==
            IF i > Len(categories) THEN << >>
            ELSE << FormatReason(categories[i].name) >> \o Collect(i + 1)
    IN  IF Truthy(flagged) THEN Collect(1) ELSE << >>

CategoryReasonsUngated(flagged, categories) ==
    LET RECURSIVE Collect(_)
        Collect(i) ==
            IF i > Len(categories) THEN << >>
            ELSE (IF Truthy(categories[i].is_flagged)
                  THEN << FormatReason(categories[i].name) >> ELSE << >>)
                 \o Collect(i + 1)
    IN  Collect(1)

\* reasons = []; if flagged: for category, is_flagged in categories.items(): ...
CategoryReasons(flagged, categories) ==
    LET RECURSIVE Collect(_)
        Collect(i) ==
            IF i > Len(categories) THEN << >>
            ELSE (IF Truthy(categories[i].is_flagged)
                  THEN << FormatReason(categories[i].name) >> ELSE << >>)
                 \o Collect(i + 1)
    IN  IF Truthy(flagged) THEN Collect(1) ELSE << >>

NoVerdict == [ safe |-> FALSE, reasons |-> << >>, mode |-> "" ]

Returned(v) == [ raised |-> "none", value |-> v ]

Raised(e) == [ raised |-> e, value |-> NoVerdict ]

check_with_openai_reraise(o) ==
    IF RaisedInTry(o) # "none" THEN Raised(RaisedInTry(o))
    ELSE LET result == o.data.results[1]
         IN  Returned([ safe |-> ~ Truthy(result.flagged),
                        reasons |-> CategoryReasons(result.flagged, result.categories),
                        mode |-> "openai" ])

\* every exception of the try block is caught (except Exception) and
\* replaced by HTTPException(500)
check_with_openai(o) ==
    IF RaisedInTry(o) # "none" THEN Raised("HTTPException")
    ELSE LET result == o.data.results[1]
         IN  Returned([ safe |-> ~ Truthy(result.flagged),
                        reasons |-> CategoryReasons(result.flagged, result.categories),
                        mode |-> "openai" ])

(* ---------------------------------------------------------------------- *)
(* Inputs                                                                  *)
(* ---------------------------------------------------------------------- *)
Requests == 1..NumRequests

\* os.getenv("OPENAI_API_KEY"): None when unset, else the string
EnvUnset == [ set |-> FALSE, value |-> "" ]

EnvEmpty == [ set |-> TRUE, value |-> "" ]

EnvKey == [ set |-> TRUE, value |-> "sk-test" ]

EnvValues == { EnvUnset, EnvEmpty, EnvKey }

\* pieces the request texts are concatenated from
HeurChunks ==
    { <<"g","u","n"," ">>, <<"f","a","t"," ">>, <<"r","o","b"," ">>,
      <<"b","u","y"," ">>, <<"H","a","t","e">>, <<"s">>, <<" ">> }

ReqChunks == { <<"g","u","n"," ">>, <<"H","a","t","e">>, <<"s">>, <<"\t">> }

RECURSIVE TextsOf(_, _)
TextsOf(chunks, n) ==
    IF n = 0 THEN { << >> }
    ELSE LET shorter == TextsOf(chunks, n - 1)
         IN  shorter \cup { s \o c : s \in shorter, c \in chunks }

ReqTexts == TextsOf(ReqChunks, MaxReqChunks)

\* the texts of the concurrent requests: empty, blank, matching, not matching
FewTexts == { << >>, <<"\t">>, <<"g","u","n"," ">>, <<"s">> }

HeurTexts == TextsOf(HeurChunks, MaxChunks)

(* ---------------------------------------------------------------------- *)
(* State                                                                   *)
(* ---------------------------------------------------------------------- *)
VARIABLES
    env_key,    \* the value of OPENAI_API_KEY in the process environment
    pc,         \* per request: "start", "upstream" (suspended in the call), "done"
    text,       \* per request: request.text
    outcome,    \* per request: what the outbound call yielded
    response,   \* per request: the HTTP response
    trace       \* per request: the classifiers invoked, in order

vars == << env_key, pc, text, outcome, response, trace >>

\* CheckResponse(**verdict), sent with status 200
CheckResponse(v) ==
    [ status_code |-> 200, safe |-> v.safe, reasons |-> v.reasons, mode |-> v.mode,
      detail |-> "" ]

\* an exception that leaves check_text
ErrorResponse(code, detail) ==
    [ status_code |-> code, safe |-> FALSE, reasons |-> << >>, mode |-> "",
      detail |-> detail ]

NoResponse == ErrorResponse(0, "")

Init ==
    /\ env_key \in EnvValues
    /\ pc = [ r \in Requests |-> "start" ]
    /\ text = [ r \in Requests |-> << >> ]
    /\ outcome = [ r \in Requests |-> NoOutcome ]
    /\ response = [ r \in Requests |-> NoResponse ]
    /\ trace = [ r \in Requests |-> << >> ]

(* ---------------------------------------------------------------------- *)
(* check_text                                                              *)
(* ---------------------------------------------------------------------- *)
IsBlankEmptyOnly(t) == t = << >>

\* not request.text.strip()
IsBlank(t) == strip(t) = << >>

KeyAvailableIfSet(k) == k.set

\* the truth value of os.getenv("OPENAI_API_KEY")
KeyAvailable(k) == k.set /\ k.value # ""

check_text_after_no_return(t, res) ==
    IF res.raised \in { "none", "HTTPException" }
    THEN [ response |-> CheckResponse(check_with_heuristic(t)), fallback |-> TRUE ]
    ELSE [ response |-> ErrorResponse(500, "Internal Server Error"),
           fallback |-> FALSE ]

check_text_after_no_except(t, res) ==
    IF res.raised = "none"
    THEN [ response |-> CheckResponse(res.value), fallback |-> FALSE ]
    ELSE IF res.raised = "HTTPException"
    THEN [ response |-> ErrorResponse(500, "OpenAI moderation service unavailable"),
           fallback |-> FALSE ]
    ELSE [ response |-> ErrorResponse(500, "Internal Server Error"),
           fallback |-> FALSE ]

\* the try block around the await and what follows it: the result of
\* check_with_openai is returned, an HTTPException falls through to the
\* heuristic, any other exception leaves the handler
check_text_after(t, res) ==
    IF res.raised = "none"
    THEN [ response |-> CheckResponse(res.value), fallback |-> FALSE ]
    ELSE IF res.raised = "HTTPException"
    THEN [ response |-> CheckResponse(check_with_heuristic(t)), fallback |-> TRUE ]
    ELSE [ response |-> ErrorResponse(500, "Internal Server Error"),
           fallback |-> FALSE ]

\* empty or whitespace-only text: answered at once
check_text_empty(r, t) ==
    /\ pc[r] = "start"
    /\ IsBlank(t)
    /\ text' = [ text EXCEPT ![r] = t ]
    /\ response' = [ response EXCEPT ![r] =
                       CheckResponse([ safe |-> TRUE, reasons |-> << >>, mode |-> "none" ]) ]
    /\ pc' = [ pc EXCEPT ![r] = "done" ]
    /\ UNCHANGED << env_key, outcome, trace >>

\* no key: the heuristic answers
check_text_heuristic(r, t) ==
    /\ pc[r] = "start"
    /\ ~ IsBlank(t)
    /\ ~ KeyAvailable(env_key)
    /\ text' = [ text EXCEPT ![r] = t ]
    /\ trace' = [ trace EXCEPT ![r] = Append(@, "heuristic") ]
    /\ response' = [ response EXCEPT ![r] = CheckResponse(check_with_heuristic(t)) ]
    /\ pc' = [ pc EXCEPT ![r] = "done" ]
    /\ UNCHANGED << env_key, outcome >>

\* a key: check_with_openai is entered and suspends in client.post
check_text_call(r, t) ==
    /\ pc[r] = "start"
    /\ ~ IsBlank(t)
    /\ KeyAvailable(env_key)
    /\ text' = [ text EXCEPT ![r] = t ]
    /\ trace' = [ trace EXCEPT ![r] = Append(@, "openai") ]
    /\ pc' = [ pc EXCEPT ![r] = "upstream" ]
    /\ UNCHANGED << env_key, outcome, response >>

check_text_resume_retry(r, o) ==
    /\ pc[r] = "upstream"
    /\ outcome' = [ outcome EXCEPT ![r] = o ]
    /\ IF RaisedInTry(o) # "none" /\ Len(trace[r]) < 2
       THEN /\ trace' = [ trace EXCEPT ![r] = Append(@, "openai") ]
            /\ UNCHANGED << response, pc >>
       ELSE /\ pc' = [ pc EXCEPT ![r] = "done" ]
            /\ \E res \in { check_with_openai(o) } :
               \E after \in { check_text_after(text[r], res) } :
                   /\ response' = [ response EXCEPT ![r] = after.response ]
                   /\ trace' = [ trace EXCEPT ![r] =
                                   IF after.fallback THEN Append(@, "heuristic")
                                   ELSE @ ]
    /\ UNCHANGED << env_key, text >>

\* the outbound call completes (response, error or timeout) and the handler
\* runs to its return; res is what check_with_openai yields, after what the
\* try block makes of it
check_text_resume(r, o) ==
    /\ pc[r] = "upstream"
    /\ outcome' = [ outcome EXCEPT ![r] = o ]
    /\ pc' = [ pc EXCEPT ![r] = "done" ]
    /\ \E res \in { check_with_openai(o) } :
       \E after \in { check_text_after(text[r], res) } :
           /\ response' = [ response EXCEPT ![r] = after.response ]
           /\ trace' = [ trace EXCEPT ![r] =
                           IF after.fallback THEN Append(@, "heuristic") ELSE @ ]
    /\ UNCHANGED << env_key, text >>

\* a request arrives with a text of the given set
Receive(r, texts) ==
    /\ pc[r] = "start"
    /\ \E t \in texts :
            \/ check_text_empty(r, t)
            \/ check_text_heuristic(r, t)
            \/ check_text_call(r, t)

\* the outbound call of request r ends in one of the given outcomes
Complete(r, outcomes) ==
    /\ pc[r] = "upstream"
    /\ \E o \in outcomes : check_text_resume(r, o)

(* ---------------------------------------------------------------------- *)
(* The server: several requests in flight, one outcome of each kind        *)
(* (success, failure, timeout)                                             *)
(* ---------------------------------------------------------------------- *)
TimedOut == Outcome("ReadTimeout", 0, FALSE, NoData)

OutcomeKinds ==
    { TimedOut,
      Outcome("none", 500, TRUE, NoData),
      Outcome("none", 200, TRUE,
              DataObject({"results"},
                         << ResultObject({"flagged", "categories"}, "true",
                                         << [ name |-> UpstreamCategoryNames[1],
                                              is_flagged |-> "true" ] >>) >>)) }

Next == \E r \in Requests : Receive(r, FewTexts) \/ Complete(r, OutcomeKinds)

Spec == Init /\ [][Next]_vars

\* the call is made with timeout=10.0, so a suspended call always completes
FairSpec == Spec /\ \A r \in Requests : WF_vars(Complete(r, OutcomeKinds))

(* ---------------------------------------------------------------------- *)
(* One request with every text and every outcome of the call               *)
(* ---------------------------------------------------------------------- *)
RequestNext == Receive(1, ReqTexts) \/ Complete(1, Outcomes)

RequestSpec == Init /\ [][RequestNext]_vars

(* ---------------------------------------------------------------------- *)
(* The heuristic path on its own: one request, no key, longer texts        *)
(* ---------------------------------------------------------------------- *)
HeurInit == Init /\ env_key \in { EnvUnset, EnvEmpty }

HeurNext ==
    /\ pc[1] = "start"
    /\ \E t \in HeurTexts :
            \/ check_text_empty(1, t)
            \/ check_text_heuristic(1, t)

HeurSpec == HeurInit /\ [][HeurNext]_vars

(* ---------------------------------------------------------------------- *)
(* Vocabulary of the properties                                            *)
(* ---------------------------------------------------------------------- *)
Done(r) == pc[r] = "done"

OnlyWhitespace(t) == \A i \in 1..Len(t) : IsSpace(t[i])

NoCredential == env_key \in { EnvUnset, EnvEmpty }

Credential == env_key = EnvKey

UpstreamFailed(r) ==
    outcome[r] \in TransportFailures \cup StatusFailures \cup MalformedPayloads

UpstreamSucceeded(r) == outcome[r] \in WellFormed

UpstreamResult(r) == outcome[r].data.results[1]

Flagged(r) == UpstreamResult(r).flagged = "true"

Count(s, x) == Cardinality({ i \in 1..Len(s) : s[i] = x })

TrueCategories(cats) == { i \in 1..Len(cats) : cats[i].is_flagged = "true" }

\* one entry for each category marked true, and no other entry
OneEntryPerTrueCategory(reasons, cats) ==
    /\ Len(reasons) = Cardinality(TrueCategories(cats))
    /\ \A i \in 1..Len(cats) :
          cats[i].is_flagged = "true" <=> FormatReason(cats[i].name) \in Range(reasons)

\* the reason strings of the four categories, in the order of the table
ExpectedReasons ==
    << <<"D","e","t","e","c","t","e","d",":"," ","V","i","o","l","e","n","c","e">>,
       <<"D","e","t","e","c","t","e","d",":"," ","H","a","r","a","s","s","m","e","n","t">>,
       <<"D","e","t","e","c","t","e","d",":"," ",
         "I","n","a","p","p","r","o","p","r","i","a","t","e">>,
       <<"D","e","t","e","c","t","e","d",":"," ","S","p","a","m">> >>

MatchingPatterns(c, t) ==
    { k \in 1..Len(HEURISTIC_PATTERNS[c].patterns) :
        re_search(HEURISTIC_PATTERNS[c].patterns[k], t) }

(* ---------------------------------------------------------------------- *)
(* Properties                                                              *)
(* ---------------------------------------------------------------------- *)

\* C1: a request whose text is empty or only whitespace is answered with
\* exactly safe=true, reasons=[], mode="none", with or without a key, and
\* neither the outbound call nor the heuristic classifier is invoked for it.
C1_EmptyTextIsNone ==
    \A r \in Requests :
        (Done(r) /\ OnlyWhitespace(text[r])) =>
            /\ response[r] = [ status_code |-> 200, safe |-> TRUE, reasons |-> << >>,
                               mode |-> "none", detail |-> "" ]
            /\ trace[r] = << >>
            /\ outcome[r] = NoOutcome

C1_Witness ==
    \E r \in Requests :
        /\ Done(r) /\ Credential
        /\ text[r] = << "\t" >>
        /\ response[r].mode = "none"

C3_NoKeyIsHeuristic ==
    NoCredential =>
        \A r \in Requests :
            /\ pc[r] # "upstream"
            /\ outcome[r] = NoOutcome
            /\ (Done(r) /\ ~ OnlyWhitespace(text[r])) =>
                  /\ response[r].mode = "heuristic"
                  /\ trace[r] = << "heuristic" >>

C3_Witness ==
    \E r \in Requests :
        /\ Done(r) /\ env_key = EnvEmpty
        /\ ~ OnlyWhitespace(text[r])
        /\ response[r].mode = "heuristic"

\* C4: with a key and a non-blank text, a well-formed upstream response is
\* returned as the client built it (safe, reasons, mode "openai"), and the
\* heuristic classifier is not invoked.
C4_SuccessReturnedVerbatim ==
    \A r \in Requests :
        (Credential /\ ~ OnlyWhitespace(text[r]) /\ UpstreamSucceeded(r)) =>
            /\ Done(r)
            /\ response[r] = CheckResponse(check_with_openai(outcome[r]).value)
            /\ response[r].mode = "openai"
            /\ trace[r] = << "openai" >>

C4_Witness ==
    \E r \in Requests :
        /\ Done(r) /\ UpstreamSucceeded(r)
        /\ response[r].mode = "openai"
        /\ Len(response[r].reasons) = 2
        /\ re_search(HEURISTIC_PATTERNS[1].patterns[2], text[r])

\* C5 as stated: on a successful upstream response safe = NOT flagged and
\* reasons has exactly one entry for each category marked true, for every
\* combination of flagged and the per-category booleans.
C5_ReasonsPerTrueCategory ==
    \A r \in Requests :
        (Done(r) /\ UpstreamSucceeded(r)) =>
            /\ response[r].safe = ~ Flagged(r)
            /\ OneEntryPerTrueCategory(response[r].reasons, UpstreamResult(r).categories)

\* C5 amended: safe = NOT flagged; when flagged is true reasons has exactly
\* one entry for each category marked true, and when flagged is false
\* reasons is empty whatever the categories say.
C5_ReasonsGatedByFlagged ==
    \A r \in Requests :
        (Done(r) /\ UpstreamSucceeded(r)) =>
            /\ response[r].safe = ~ Flagged(r)
            /\ Flagged(r) =>
                  OneEntryPerTrueCategory(response[r].reasons,
                                          UpstreamResult(r).categories)
            /\ ~ Flagged(r) => response[r].reasons = << >>

C5_Witness ==
    \E r \in Requests :
        /\ Done(r) /\ UpstreamSucceeded(r)
        /\ Flagged(r)
        /\ Len(UpstreamResult(r).categories) = 2
        /\ Cardinality(TrueCategories(UpstreamResult(r).categories)) = 1
        /\ Len(response[r].reasons) = 1

\* C6: in every response of mode "heuristic" or "none", safe is true exactly
\* when reasons is empty.
C6_SafeIffNoReasons ==
    \A r \in Requests :
        (Done(r) /\ response[r].mode \in { "heuristic", "none" }) =>
            (response[r].safe <=> response[r].reasons = << >>)

C6_Witness ==
    \E r \in Requests :
        /\ Done(r)
        /\ response[r].mode = "heuristic"
        /\ ~ response[r].safe
        /\ Len(response[r].reasons) = 3

\* C7: the heuristic classifier gives one reason for a category exactly when
\* at least one of its patterns matches, however many match; reasons has no
\* duplicates, at most 4 entries, and follows the order violence,
\* harassment, inappropriate, spam.
C7_OneReasonPerCategory ==
    \A r \in Requests :
        (Done(r) /\ response[r].mode = "heuristic") =>
            LET reasons == response[r].reasons
            IN  /\ Len(reasons) <= 4
                /\ \A c \in 1..4 :
                      Count(reasons, ExpectedReasons[c]) =
                          IF MatchingPatterns(c, text[r]) # {} THEN 1 ELSE 0
                /\ reasons = SelectSeq(ExpectedReasons,
                                       LAMBDA x : x \in Range(reasons))

C7_Witness ==
    \E r \in Requests :
        /\ Done(r)
        /\ response[r].mode = "heuristic"
        /\ \E c \in 1..4 : Cardinality(MatchingPatterns(c, text[r])) >= 2
        /\ Len(response[r].reasons) >= 2

\* C8: a request makes at most one outbound call; a failed call is followed
\* at once by the heuristic fallback, never by a second call.
C8_NoRetry ==
    \A r \in Requests :
        /\ Count(trace[r], "openai") <= 1
        /\ UpstreamFailed(r) =>
              /\ Done(r)
              /\ trace[r] = << "openai", "heuristic" >>

C8_Witness ==
    \E r \in Requests :
        /\ Done(r)
        /\ outcome[r].status_code = 500
        /\ trace[r] = << "openai", "heuristic" >>
        /\ \E q \in Requests : trace[q] = << "openai" >> /\ Done(q)

\* C9: every request that was received eventually is done, with a 200
\* verdict of mode "openai", "heuristic" or "none" and never an error,
\* whatever the other requests do and however the outbound call ends.
C9_AlwaysAVerdict ==
    /\ [] (\A r \in Requests :
             Done(r) => /\ response[r].status_code = 200
                        /\ response[r].mode \in { "openai", "heuristic", "none" })
    /\ \A r \in Requests : (pc[r] = "upstream") ~> Done(r)

C9_Witness ==
    \E r1, r2 \in Requests :
        /\ r1 # r2
        /\ pc[r1] = "upstream"
        /\ Done(r2)
        /\ outcome[r2] = TimedOut
        /\ response[r2].status_code = 200
        /\ response[r2].mode = "heuristic"

\* C10: in every response of mode "openai", safe = true implies that reasons
\* is empty (reasons are collected only when flagged is true).
C10_OpenAISafeHasNoReasons ==
    \A r \in Requests :
        (Done(r) /\ response[r].mode = "openai" /\ response[r].safe) =>
            response[r].reasons = << >>

C10_Witness ==
    \E r \in Requests :
        /\ Done(r)
        /\ response[r].mode = "openai"
        /\ response[r].safe
        /\ TrueCategories(UpstreamResult(r).categories) # {}
====
